---- MODULE Spec2Model ----
(***************************************************************************)
(* Model of flux-helpers: the universal image-tag matcher and rewriter     *)
(* (findImageBlocksUniversal, BumpTagInValuesUniversal), the semver gate   *)
(* and the multi-image entry point.                                        *)
(*                                                                         *)
(* A Go string is a sequence of one-character strings, so that prefix      *)
(* tests, splitting on ':' and the semver regular expression are computed  *)
(* on characters.  A value of type interface{} is a record [t, v]:         *)
(*   t = "str"  v = the characters         (string)                        *)
(*   t = "num"  v = 0                      (any non-string scalar)         *)
(*   t = "map"  v = function key -> node   (map[string]interface{})        *)
(*   t = "seq"  v = sequence of nodes      ([]interface{})                 *)
(* A Go map reference is the path of the mapping from the root; the trees  *)
(* come from json.Unmarshal, so no mapping is reachable by two paths.      *)
(***************************************************************************)
EXTENDS Integers, Sequences, FiniteSets, TLC

VARIABLES values, last, prev, ncalls, found, file, mlast, sem, san, chart, inj

vars == <<values, last, prev, ncalls, found, file, mlast, sem, san, chart, inj>>

\* the variables of the runs of the other functions
others == <<sem, san, chart, inj>>

(***************************************************************************)
(* Strings                                                                 *)
(***************************************************************************)
Digits == {"0", "1", "2", "3", "4", "5", "6", "7", "8", "9"}

Letters == {"a", "b", "c", "d", "e", "f", "g", "h", "i", "j", "k", "l", "m",
            "n", "o", "p", "q", "r", "s", "t", "u", "v", "w", "x", "y", "z",
            "A", "B", "C", "D", "E", "F", "G", "H", "I", "J", "K", "L", "M",
            "N", "O", "P", "Q", "R", "S", "T", "U", "V", "W", "X", "Y", "Z"}

\* the character class [a-zA-Z0-9.-] of the semver expression
IdentChars == Letters \cup Digits \cup {".", "-"}

\* strings.HasPrefix
HasPrefix(s, p) == Len(p) <= Len(s) /\ SubSeq(s, 1, Len(p)) = p

\* strings.Split(s, sep) for a one-character separator: never empty
RECURSIVE SplitFrom(_, _, _, _)
SplitFrom(s, sep, i, cur) ==
    IF i > Len(s) THEN <<cur>>
    ELSE IF s[i] = sep THEN <<cur>> \o SplitFrom(s, sep, i + 1, <<>>)
    ELSE SplitFrom(s, sep, i + 1, Append(cur, s[i]))

Split(s, sep) == SplitFrom(s, sep, 1, <<>>)

\* length of the longest prefix of s[i..] made of characters of class
RECURSIVE RunLen(_, _, _)
RunLen(s, i, class) ==
    IF i <= Len(s) /\ s[i] \in class THEN 1 + RunLen(s, i + 1, class) ELSE 0

\* the optional (\+[a-zA-Z0-9.-]+)? followed by $, read from position i
BuildTail(s, i) ==
    \/ i = Len(s) + 1
    \/ /\ i <= Len(s)
       /\ s[i] = "+"
       /\ RunLen(s, i + 1, IdentChars) >= 1
       /\ i + 1 + RunLen(s, i + 1, IdentChars) = Len(s) + 1

\* the expression without the closing $
PreTailOpen(s, i) == TRUE

\* the optional (-[a-zA-Z0-9.-]+)? then the build part, read from position i
PreTail(s, i) ==
    \/ BuildTail(s, i)
    \/ /\ i <= Len(s)
       /\ s[i] = "-"
       /\ RunLen(s, i + 1, IdentChars) >= 1
       /\ BuildTail(s, i + 1 + RunLen(s, i + 1, IdentChars))

\* ^v?\d+\.\d+\.\d+(-[a-zA-Z0-9.-]+)?(\+[a-zA-Z0-9.-]+)?$
isValidSemver(tag) ==
    LET p0 == IF Len(tag) >= 1 /\ tag[1] = "v" THEN 2 ELSE 1
        n1 == RunLen(tag, p0, Digits)
        p1 == p0 + n1
        n2 == RunLen(tag, p1 + 1, Digits)
        p2 == p1 + 1 + n2
        n3 == RunLen(tag, p2 + 1, Digits)
        p3 == p2 + 1 + n3
    IN  /\ n1 >= 1
        /\ p1 <= Len(tag) /\ tag[p1] = "."
        /\ n2 >= 1
        /\ p2 <= Len(tag) /\ tag[p2] = "."
        /\ n3 >= 1
        /\ PreTail(tag, p3)

(***************************************************************************)
(* Trees                                                                   *)
(***************************************************************************)
MkStr(s) == [t |-> "str", v |-> s]

MkNum == [t |-> "num", v |-> 0]

MkMap(f) == [t |-> "map", v |-> f]

MkSeq(q) == [t |-> "seq", v |-> q]

EmptyMap == [k \in {} |-> MkNum]

\* one step of a path: a mapping key or a sequence index
AtKey(k) == [k |-> k, i |-> 0]

AtIdx(i) == [k |-> "", i |-> i]

IsPrefixPath(d, p) == Len(d) <= Len(p) /\ SubSeq(p, 1, Len(d)) = d

\* the Go expression typed[key], read on a mapping node: ok is the comma-ok
HasKey(node, key) == node.t = "map" /\ key \in DOMAIN node.v

\* typed[key].(string): the string and whether the assertion holds
StrAt(node, key) ==
    IF HasKey(node, key) /\ node.v[key].t = "str"
    THEN [ok |-> TRUE, s |-> node.v[key].v]
    ELSE [ok |-> FALSE, s |-> <<>>]

Child(node, step) == IF step.i = 0 THEN node.v[step.k] ELSE node.v[step.i]

HasChild(node, step) ==
    IF step.i = 0 THEN node.t = "map" /\ step.k \in DOMAIN node.v
    ELSE node.t = "seq" /\ step.i \in 1..Len(node.v)

RECURSIVE HasPath(_, _)
HasPath(node, p) ==
    \/ p = <<>>
    \/ HasChild(node, Head(p)) /\ HasPath(Child(node, Head(p)), Tail(p))

RECURSIVE Get(_, _)
Get(node, p) == IF p = <<>> THEN node ELSE Get(Child(node, Head(p)), Tail(p))

\* m[key] = val on the mapping node m
SetKey(m, key, val) ==
    MkMap([k \in (DOMAIN m.v) \cup {key} |-> IF k = key THEN val ELSE m.v[k]])

\* the tree with the node at path p replaced by sub
RECURSIVE Put(_, _, _)
Put(node, p, sub) ==
    IF p = <<>> THEN sub
    ELSE IF Head(p).i = 0
         THEN MkMap([node.v EXCEPT ![Head(p).k] = Put(@, Tail(p), sub)])
         ELSE MkSeq([node.v EXCEPT ![Head(p).i] = Put(@, Tail(p), sub)])

\* every order in which a range loop can visit the keys of a Go map
KeyOrders(S) ==
    {f \in [1..Cardinality(S) -> S] : \A i, j \in 1..Cardinality(S) : f[i] = f[j] => i = j}

(***************************************************************************)
(* findImageBlocksUniversal                                                *)
(***************************************************************************)
\* matches = append(matches, typed)
BlockMatch(p) == [kind |-> "block", path |-> p, key |-> "", value |-> <<>>]

\* matches = append(matches, {"key": key, "value": strVal, "path": typed})
InlineMatch(p, key, strVal) == [kind |-> "inline", path |-> p, key |-> key, value |-> strVal]

\* the prefix test without the colon
IsInlineEntryNoColon(val, imageName) == val.t = "str" /\ HasPrefix(val.v, imageName)

IsInlineEntry(val, imageName) == val.t = "str" /\ HasPrefix(val.v, imageName \o <<":">>)

RECURSIVE walk(_, _, _)
RECURSIVE walkKeys(_, _, _, _, _)
RECURSIVE walkItems(_, _, _, _)
\* the match lists the closure can append for the keys order[i..], in turn
walkKeys(typed, p, imageName, order, i) ==
    IF i > Len(order) THEN {<<>>}
    ELSE LET key == order[i]
             val == typed.v[key]
             here == IF IsInlineEntry(val, imageName)
                     THEN {<<InlineMatch(p, key, val.v)>>}
                     ELSE walk(val, Append(p, AtKey(key)), imageName)
         IN  {a \o b : a \in here, b \in walkKeys(typed, p, imageName, order, i + 1)}

walkItems(typed, p, imageName, i) ==
    IF i > Len(typed.v) THEN {<<>>}
    ELSE {a \o b : a \in walk(typed.v[i], Append(p, AtIdx(i)), imageName),
                   b \in walkItems(typed, p, imageName, i + 1)}

\* the closure walk: the set of match lists it can append below node, one
\* for each order in which the range loops visit the keys of the mappings
walk(node, p, imageName) ==
    IF node.t = "map"
    THEN LET repo == StrAt(node, "repository")
             head == IF repo.ok /\ repo.s = imageName THEN <<BlockMatch(p)>> ELSE <<>>
         IN  UNION {{head \o rest : rest \in walkKeys(node, p, imageName, order, 1)} :
                    order \in KeyOrders(DOMAIN node.v)}
    ELSE IF node.t = "seq"
    THEN walkItems(node, p, imageName, 1)
    ELSE {<<>>}

findImageBlocksUniversal(tree, imageName) == walk(tree, <<>>, imageName)

(***************************************************************************)
(* BumpTagInValuesUniversal                                                *)
(*                                                                         *)
(* While the loop runs, the objects of the call are the tree of the caller *)
(* and the mappings and sequences an assignment has unlinked from it: a    *)
(* match keeps its reference to such an object, and a write through that   *)
(* reference changes the unlinked object, not the tree.  heap.tree is the  *)
(* caller's tree, heap.det the unlinked subtrees with the path each had.   *)
(***************************************************************************)
NewHeap(tree) == [tree |-> tree, det |-> <<>>]

\* the unlinked subtrees that hold the object first found at path p
Holders(heap, p) == {j \in 1..Len(heap.det) : IsPrefixPath(heap.det[j].at, p)}

\* the one that holds it now: the deepest
Holder(heap, p) ==
    CHOOSE j \in Holders(heap, p) :
        \A l \in Holders(heap, p) : Len(heap.det[l].at) <= Len(heap.det[j].at)

\* the object a reference taken at path p points to
Deref(heap, p) ==
    IF Holders(heap, p) = {} THEN Get(heap.tree, p)
    ELSE LET j == Holder(heap, p)
         IN  Get(heap.det[j].node, SubSeq(p, Len(heap.det[j].at) + 1, Len(p)))

\* the object at path p becomes obj
Store(heap, p, obj) ==
    IF Holders(heap, p) = {} THEN [heap EXCEPT !.tree = Put(@, p, obj)]
    ELSE LET j == Holder(heap, p)
         IN  [heap EXCEPT !.det[j].node =
                 Put(@, SubSeq(p, Len(heap.det[j].at) + 1, Len(p)), obj)]

\* m[key] = val through the reference p; a mapping or sequence that was
\* the value of key is unlinked and stays reachable from its matches only
Assign(heap, p, key, val) ==
    LET m == Deref(heap, p)
        stored == Store(heap, p, SetKey(m, key, val))
    IN  IF HasKey(m, key) /\ m.v[key].t \in {"map", "seq"}
        THEN [stored EXCEPT !.det = Append(@, [at |-> Append(p, AtKey(key)), node |-> m.v[key]])]
        ELSE stored

\* image["repository"].(string) on the element of matches: the synthetic
\* map of an inline match has the keys key, value and path only
MatchRepository(heap, image) ==
    IF image.kind = "block" THEN StrAt(Deref(heap, image.path), "repository")
    ELSE [ok |-> FALSE, s |-> <<>>]

\* image["tag"].(string), the second result dropped: "" when it fails
MatchTag(heap, image) == StrAt(Deref(heap, image.path), "tag").s

\* image["key"].(string).  Case 2 is reached by the synthetic maps only: a
\* block is in matches because its repository is imageName, and no write of
\* the loop changes the repository of a block, so Case 1 takes it
MatchKey(heap, image) ==
    IF image.kind = "inline" THEN [ok |-> TRUE, s |-> image.key]
    ELSE [ok |-> FALSE, s |-> ""]

\* the value of an inline match read from the mapping when the match is
\* handled, not taken from the match
MatchValueLive(heap, image) ==
    IF image.kind = "inline" THEN StrAt(Deref(heap, image.path), image.key)
    ELSE StrAt(Deref(heap, image.path), "value")

\* image["value"].(string)
MatchValue(heap, image) ==
    IF image.kind = "inline" THEN [ok |-> TRUE, s |-> image.value]
    ELSE StrAt(Deref(heap, image.path), "value")

\* image["path"].(map[string]interface{}): the reference and the comma-ok
MatchPath(heap, image) ==
    IF image.kind = "inline" THEN [ok |-> TRUE, p |-> image.path]
    ELSE [ok |-> HasKey(Deref(heap, image.path), "path")
                 /\ Deref(heap, image.path).v["path"].t = "map",
          p |-> Append(image.path, AtKey("path"))]

Decision(image, outcome) ==
    [kind |-> image.kind, path |-> image.path, key |-> image.key, outcome |-> outcome]

\* an invalid version reported as an error of the call
BumpReturnInvalidAsError(heap, updated, err, log) ==
    [values |-> heap.tree, updated |-> updated,
     err |-> IF \E d \in log : d.outcome = "invalid" THEN "invalid version" ELSE err,
     decisions |-> log]

\* what a call hands back: the caller's tree, the boolean, the error, and
\* for each match the branch it took
BumpReturn(heap, updated, err, log) ==
    [values |-> heap.tree, updated |-> updated, err |-> err, decisions |-> log]

\* the no-match return with the boolean set
NoMatchReturnTrue(tree) == BumpReturn(NewHeap(tree), TRUE, "nil", {})

\* if len(matches) == 0 { return false, nil }
NoMatchReturn(tree) == BumpReturn(NewHeap(tree), FALSE, "nil", {})

\* the final return of BumpTagInValues: return true, nil
LoopDoneTrue(heap, updated, log) == BumpReturn(heap, TRUE, "nil", log)

\* return updated, nil
LoopDone(heap, updated, log) == BumpReturn(heap, updated, "nil", log)

\* the write made in both branches
ApplyOrSimulateWrites(heap, written, dryRun) == written

\* if dryRun { print } else { write }: the objects after the branch
ApplyOrSimulate(heap, written, dryRun) == IF dryRun THEN heap ELSE written

\* the segment after the first ':' taken as the current version
InlineOldTagSecond(val) == Split(val, ":")[2]

\* parts := strings.Split(val, ":"); oldTag := parts[len(parts)-1]
InlineOldTag(val) == Split(val, ":")[Len(Split(val, ":"))]

\* the separator left out of the format
NewImageNoColon(imageName, newVersion) == imageName \o newVersion

\* newImage := fmt.Sprintf("%s:%s", imageName, newVersion)
NewImage(imageName, newVersion) == imageName \o <<":">> \o newVersion

\* the version test left out
RejectsVersionNever(newVersion) == FALSE

\* if !isValidSemver(newVersion) { continue }
RejectsVersion(newVersion) == ~isValidSemver(newVersion)

\* a skip that leaves the loop
AfterSkipBreak(i, n) == n + 1

\* continue: the element the loop goes to after a skipped match i of n
AfterSkip(i, n) == i + 1

\* the body of "for _, image := range matches", from element i on
RECURSIVE BumpLoop(_, _, _, _, _, _, _, _)
BumpLoop(heap, matches, i, imageName, newVersion, dryRun, updated, log) ==
    IF i > Len(matches) THEN LoopDone(heap, updated, log)
    ELSE
    LET image == matches[i]
        repo == MatchRepository(heap, image)
        key == MatchKey(heap, image)
        val == MatchValue(heap, image)
        path == MatchPath(heap, image)
        skip(outcome) ==
            BumpLoop(heap, matches, AfterSkip(i, Len(matches)), imageName, newVersion, dryRun,
                     updated, log \cup {Decision(image, outcome)})
        apply(written) ==
            BumpLoop(ApplyOrSimulate(heap, written, dryRun), matches, i + 1, imageName,
                     newVersion, dryRun, TRUE, log \cup {Decision(image, "apply")})
    IN  IF repo.ok /\ repo.s = imageName
        THEN \* Case 1: structured image block
             IF MatchTag(heap, image) = newVersion THEN skip("current")
             ELSE IF RejectsVersion(newVersion) THEN skip("invalid")
             ELSE apply(Assign(heap, image.path, "tag", MkStr(newVersion)))
        ELSE IF key.ok /\ val.ok /\ path.ok /\ HasPrefix(val.s, imageName \o <<":">>)
        THEN \* Case 2: Aspire-style string entry
             IF InlineOldTag(val.s) = newVersion THEN skip("current")
             ELSE IF RejectsVersion(newVersion) THEN skip("invalid")
             ELSE apply(Assign(heap, path.p, key.s, MkStr(NewImage(imageName, newVersion))))
        ELSE skip("none")

\* the results the call can have, one for each order of the match list
BumpTagInValuesUniversal(tree, imageName, newVersion, dryRun) ==
    {IF Len(matches) = 0
     THEN NoMatchReturn(tree)
     ELSE BumpLoop(NewHeap(tree), matches, 1, imageName, newVersion, dryRun, FALSE, {}) :
     matches \in findImageBlocksUniversal(tree, imageName)}


(***************************************************************************)
(* findImageBlocks and BumpTagInValues, the structured-block functions     *)
(***************************************************************************)
RECURSIVE walkBlocks(_, _, _)
RECURSIVE walkBlockKeys(_, _, _, _, _)
RECURSIVE walkBlockItems(_, _, _, _)
\* for _, v := range typed { walk(v) }, from the key order[i] on
walkBlockKeys(typed, p, imageName, order, i) ==
    IF i > Len(order) THEN {<<>>}
    ELSE {a \o b : a \in walkBlocks(typed.v[order[i]], Append(p, AtKey(order[i])), imageName),
                   b \in walkBlockKeys(typed, p, imageName, order, i + 1)}

\* for _, item := range typed { walk(item) }, from the item i on
walkBlockItems(typed, p, imageName, i) ==
    IF i > Len(typed.v) THEN {<<>>}
    ELSE {a \o b : a \in walkBlocks(typed.v[i], Append(p, AtIdx(i)), imageName),
                   b \in walkBlockItems(typed, p, imageName, i + 1)}

\* the closure walk of findImageBlocks: the match lists it can append below
\* node, one for each order in which the range loops visit the keys
walkBlocks(node, p, imageName) ==
    IF node.t = "map"
    THEN LET repo == StrAt(node, "repository")
             head == IF repo.ok /\ repo.s = imageName THEN <<BlockMatch(p)>> ELSE <<>>
         IN  UNION {{head \o rest : rest \in walkBlockKeys(node, p, imageName, order, 1)} :
                    order \in KeyOrders(DOMAIN node.v)}
    ELSE IF node.t = "seq"
    THEN walkBlockItems(node, p, imageName, 1)
    ELSE {<<>>}

findImageBlocks(tree, imageName) == walkBlocks(tree, <<>>, imageName)

\* the boolean set only when a match was applied
BlocksDoneIfApplied(heap, log) ==
    BumpReturn(heap, \E d \in log : d.outcome = "apply", "nil", log)

\* the return after the loop of BumpTagInValues: return true, nil
BlocksDone(heap, log) == BumpReturn(heap, TRUE, "nil", log)

\* the body of "for _, image := range matches" of BumpTagInValues, from
\* element i on
RECURSIVE BumpBlocksLoop(_, _, _, _, _, _, _)
BumpBlocksLoop(heap, matches, i, imageName, newVersion, dryRun, log) ==
    IF i > Len(matches) THEN BlocksDone(heap, log)
    ELSE
    LET image == matches[i]
        repo == MatchRepository(heap, image)
        skip(outcome) ==
            BumpBlocksLoop(heap, matches, i + 1, imageName, newVersion, dryRun,
                           log \cup {Decision(image, outcome)})
    IN  IF ~repo.ok \/ repo.s # imageName THEN skip("none")
        ELSE IF MatchTag(heap, image) = newVersion THEN skip("current")
        ELSE IF RejectsVersion(newVersion) THEN skip("invalid")
        ELSE BumpBlocksLoop(
                 ApplyOrSimulate(heap, Assign(heap, image.path, "tag", MkStr(newVersion)), dryRun),
                 matches, i + 1, imageName, newVersion, dryRun,
                 log \cup {Decision(image, "apply")})

\* the results the call can have, one for each order of the match list
BumpTagInValues(tree, imageName, newVersion, dryRun) ==
    {IF Len(matches) = 0
     THEN NoMatchReturn(tree)
     ELSE BumpBlocksLoop(NewHeap(tree), matches, 1, imageName, newVersion, dryRun, {}) :
     matches \in findImageBlocks(tree, imageName)}

(***************************************************************************)
(* InjectImagePullSecrets                                                  *)
(*                                                                         *)
(* A chart directory is [loads, deployment, tmpl, tmplWritable, vals,      *)
(* valsWritable, renders]: loads is whether loader.Load accepts it,        *)
(* deployment whether it has a template named deployment.yaml, tmpl the    *)
(* text of that template as strings.Split(text, "\n") gives it, vals the   *)
(* values.yaml file, renders whether the engine accepts the chart.         *)
(***************************************************************************)
WhiteSpace == {" ", "\t"}

RECURSIVE TrimLeft(_)
TrimLeft(s) == IF s # <<>> /\ Head(s) \in WhiteSpace THEN TrimLeft(Tail(s)) ELSE s

RECURSIVE TrimRight(_)
TrimRight(s) ==
    IF s # <<>> /\ s[Len(s)] \in WhiteSpace THEN TrimRight(SubSeq(s, 1, Len(s) - 1)) ELSE s

\* strings.TrimSpace(line)
TrimSpace(s) == TrimRight(TrimLeft(s))

\* "template:"
TemplateKey == <<"t", "e", "m", "p", "l", "a", "t", "e", ":">>

\* "spec:"
SpecKey == <<"s", "p", "e", "c", ":">>

\* the lines of the conditional block
BlockLines ==
    <<<<" ", " ", " ", " ", " ", " ", "{", "{", "-", " ", "i", "f", " ", ".", "V", "a", "l", "u", "e", "s", ".", "i", "m", "a", "g", "e", ".", "i", "m", "a", "g", "e", "P", "u", "l", "l", "S", "e", "c", "r", "e", "t", " ", "}", "}">>,
      <<" ", " ", " ", " ", " ", " ", "i", "m", "a", "g", "e", "P", "u", "l", "l", "S", "e", "c", "r", "e", "t", "s", ":">>,
      <<" ", " ", " ", " ", " ", " ", " ", " ", "-", " ", "n", "a", "m", "e", ":", " ", "{", "{", " ", ".", "V", "a", "l", "u", "e", "s", ".", "i", "m", "a", "g", "e", ".", "i", "m", "a", "g", "e", "P", "u", "l", "l", "S", "e", "c", "r", "e", "t", " ", "}", "}">>,
      <<" ", " ", " ", " ", " ", " ", "{", "{", "-", " ", "e", "n", "d", " ", "}", "}">>>>

\* the test without insideTemplate
TriggersAnySpec(trimmed, insideTemplate, injected) == trimmed = SpecKey /\ ~injected

\* if insideTemplate && trimmed == "spec:" && !injected
Triggers(trimmed, insideTemplate, injected) ==
    insideTemplate /\ trimmed = SpecKey /\ ~injected

\* the lines "for _, line := range lines" writes to buf from line i on
RECURSIVE InjectFrom(_, _, _, _)
InjectFrom(lines, i, insideTemplate, injected) ==
    IF i > Len(lines) THEN <<>>
    ELSE LET line == lines[i]
             trimmed == TrimSpace(line)
         IN  IF HasPrefix(trimmed, TemplateKey)
             THEN <<line>> \o InjectFrom(lines, i + 1, TRUE, injected)
             ELSE IF Triggers(trimmed, insideTemplate, injected)
             THEN <<line>> \o BlockLines \o InjectFrom(lines, i + 1, insideTemplate, TRUE)
             ELSE <<line>> \o InjectFrom(lines, i + 1, insideTemplate, injected)

\* tmpl.Data = buf.Bytes(): every written line ends with "\n", so the text
\* has an empty line after the last one
InjectTemplate(lines) == Append(InjectFrom(lines, 1, FALSE, FALSE), <<>>)

\* imageBlock, ok := values["image"].(map[string]interface{}); if !ok { make }
ImageBlock(doc) ==
    IF HasKey(doc, "image") /\ doc.v["image"].t = "map" THEN doc.v["image"] ELSE MkMap(EmptyMap)

\* imageBlock["imagePullSecret"] = ""; values["image"] = imageBlock
WithPullSecret(doc) ==
    SetKey(doc, "image", SetKey(ImageBlock(doc), "imagePullSecret", MkStr(<<>>)))

InjectReturn(c, result) == [chart |-> c, result |-> result]

\* Step 4, on the chart directory c left by the steps before
RenderChart(c) ==
    IF c.renders THEN InjectReturn(c, "nil") ELSE InjectReturn(c, "failed to render chart")

\* Step 3, on the chart directory c left by Step 2
EnsureValues(c) ==
    IF c.vals.state = "unreadable" THEN InjectReturn(c, "failed to read values.yaml")
    ELSE IF c.vals.state = "badyaml" THEN InjectReturn(c, "invalid YAML in values.yaml")
    ELSE IF c.vals.state = "empty" THEN InjectReturn(c, "panic")
    ELSE IF HasKey(ImageBlock(c.vals.doc), "imagePullSecret") THEN RenderChart(c)
    ELSE IF ~c.valsWritable THEN InjectReturn(c, "failed to write values.yaml")
    ELSE RenderChart([c EXCEPT !.vals.doc = WithPullSecret(c.vals.doc)])

\* the chart directory and the error after InjectImagePullSecrets(chartDir)
InjectImagePullSecrets(c) ==
    IF ~c.loads THEN InjectReturn(c, "failed to load chart")
    ELSE IF ~c.deployment THEN EnsureValues(c)
    ELSE IF ~c.tmplWritable THEN InjectReturn(c, "failed to write updated deployment.yaml")
    ELSE EnsureValues([c EXCEPT !.tmpl = InjectTemplate(c.tmpl)])

(***************************************************************************)
(* sanitizeHelmRelease and BumpMultipleTagsUniversalAndSanitize            *)
(*                                                                         *)
(* A file is [state, writable, doc]: state is "unreadable" when            *)
(* os.ReadFile fails, "badyaml" when yaml.Unmarshal into the HelmRelease   *)
(* fails, else "ok" and doc is the document as a tree.                     *)
(***************************************************************************)
\* delete(m, key)
DelKey(m, key) == MkMap([k \in (DOMAIN m.v) \ {key} |-> m.v[k]])

\* the length test left out
EmptyStatusAnyMap(status) == status.t = "map"

\* m, isMap := status.(map[string]interface{}); isMap && len(m) == 0
EmptyStatus(status) == status.t = "map" /\ DOMAIN status.v = {}

sanitizeHelmRelease(obj) ==
    LET noStamp ==
            IF HasKey(obj, "metadata") /\ obj.v["metadata"].t = "map"
            THEN SetKey(obj, "metadata", DelKey(obj.v["metadata"], "creationTimestamp"))
            ELSE obj
    IN  IF HasKey(noStamp, "status") /\ EmptyStatus(noStamp.v["status"])
        THEN DelKey(noStamp, "status")
        ELSE noStamp

\* hr.Spec.Values = raw; yaml.Marshal(&hr); yaml.Unmarshal(yamlBytes, &hrMap):
\* the typed HelmRelease written out has a metadata.creationTimestamp (null
\* when the file had none) and a status (empty when the file had none)
MarshalHelmRelease(doc, tree) ==
    LET meta == IF HasKey(doc, "metadata") THEN doc.v["metadata"] ELSE MkMap(EmptyMap)
        stamped == IF HasKey(meta, "creationTimestamp") THEN meta
                   ELSE SetKey(meta, "creationTimestamp", MkNum)
        status == IF HasKey(doc, "status") THEN doc.v["status"] ELSE MkMap(EmptyMap)
    IN  SetKey(SetKey(SetKey(doc, "metadata", stamped),
                      "spec", SetKey(doc.v["spec"], "values", tree)),
               "status", status)

\* the count raised for every call, changed or not
CountUpdatedAlways(updatedCount, updated) == updatedCount + 1

\* if updated { updatedCount++ }
CountUpdated(updatedCount, updated) == IF updated THEN updatedCount + 1 ELSE updatedCount

\* one pass of "for imageName, newVersion := range updates", from entry i
\* of the order the range takes: the values, the count, the calls made
RECURSIVE MultiLoop(_, _, _, _, _, _, _)
MultiLoop(tree, updates, order, i, dryRun, updatedCount, trace) ==
    IF i > Len(order)
    THEN {[values |-> tree, updatedCount |-> updatedCount, trace |-> trace, err |-> "nil"]}
    ELSE UNION {
           LET call == [imageName |-> order[i], newVersion |-> updates[order[i]],
                        pre |-> tree, post |-> r.values, changed |-> r.updated,
                        err |-> r.err]
           IN  IF r.err # "nil"
               THEN {[values |-> r.values, updatedCount |-> updatedCount,
                      trace |-> Append(trace, call), err |-> "error updating image"]}
               ELSE MultiLoop(r.values, updates, order, i + 1, dryRun,
                              CountUpdated(updatedCount, r.updated),
                              Append(trace, call)) :
           r \in BumpTagInValuesUniversal(tree, order[i], updates[order[i]], dryRun)}

\* the loop over the updates map, for every order of its entries
UpdateAll(tree, updates, dryRun) ==
    UNION {MultiLoop(tree, updates, order, 1, dryRun, 0, <<>>) :
           order \in KeyOrders(DOMAIN updates)}

\* a return of the function: the file it leaves, its error, the loop's
\* variables, and whether os.WriteFile was called
MultiReturn(f, result, loop) ==
    [file |-> f, result |-> result, values |-> loop.values,
     updatedCount |-> loop.updatedCount, trace |-> loop.trace, wrote |-> FALSE]

\* the write skipped with no update only
SkipsWriteCountOnly(dryRun, updatedCount) == updatedCount = 0

\* if dryRun { return nil }; if updatedCount == 0 { return nil }
SkipsWrite(dryRun, updatedCount) == dryRun \/ updatedCount = 0

\* marshal, sanitize and os.WriteFile(filePath, newYAML, 0644)
WriteBack(f, loop) ==
    IF ~f.writable
    THEN [MultiReturn(f, "failed to write updated file", loop) EXCEPT !.wrote = TRUE]
    ELSE [MultiReturn([f EXCEPT !.doc = sanitizeHelmRelease(MarshalHelmRelease(f.doc, loop.values))],
                      "nil", loop) EXCEPT !.wrote = TRUE]

NoLoop == [values |-> MkMap(EmptyMap), updatedCount |-> 0, trace |-> <<>>, err |-> "nil"]

\* the outcomes of BumpMultipleTagsUniversalAndSanitize(filePath, updates, dryRun)
BumpMultipleTagsUniversalAndSanitize(f, updates, dryRun) ==
    IF f.state = "unreadable" THEN {MultiReturn(f, "failed to read file", NoLoop)}
    ELSE IF f.state = "badyaml" THEN {MultiReturn(f, "failed to unmarshal HelmRelease", NoLoop)}
    ELSE IF ~HasKey(f.doc.v["spec"], "values")
    THEN \* hr.Spec.Values is nil: hr.Spec.Values.Raw panics
         {MultiReturn(f, "panic", NoLoop)}
    ELSE IF f.doc.v["spec"].v["values"].t # "map"
    THEN {MultiReturn(f, "failed to parse .spec.values", NoLoop)}
    ELSE {IF loop.err # "nil" THEN MultiReturn(f, loop.err, loop)
          ELSE IF SkipsWrite(dryRun, loop.updatedCount) THEN MultiReturn(f, "nil", loop)
          ELSE WriteBack(f, loop) :
          loop \in UpdateAll(f.doc.v["spec"].v["values"], updates, dryRun)}

(***************************************************************************)
(* Inputs: image names, versions and the values trees of the runs          *)
(***************************************************************************)
MaxCalls == 2

MaxSeqLen == 1

ImgA == <<"a">>

ImgB == <<"b">>

ImageNames == {ImgA, ImgB}

V1 == <<"1", ".", "0", ".", "0">>

V2 == <<"1", ".", "0", ".", "1">>

VBad == <<"x">>

VEmpty == <<>>

Versions == {V1, V2, VBad, VEmpty}

\* the inline reference "image:version"
Ref(imageName, version) == imageName \o <<":">> \o version

\* "a:5:1.0.1": more than one colon after the image name
PortRef == ImgA \o <<":", "5", ":">> \o V2

\* the mappings that have some of the keys of F, each with a value of F[key]
OptionalFields(F) ==
    UNION {{MkMap(f) : f \in {g \in [D -> UNION {F[k] : k \in DOMAIN F}] :
                                  \A k \in D : g[k] \in F[k]}} :
           D \in SUBSET DOMAIN F}

\* blocks whose values are scalars
LeafBlocks ==
    OptionalFields([repository |-> {MkStr(ImgA), MkStr(ImgB), MkNum},
                    tag |-> {MkStr(V1), MkStr(Ref(ImgA, V1)), MkStr(Ref(ImgB, V1)), MkNum},
                    k |-> {MkStr(Ref(ImgA, V1)), MkStr(PortRef)}])

Inner ==
    {MkMap("k" :> MkStr(Ref(ImgA, V1))),
     MkMap("repository" :> MkStr(ImgA)),
     MkMap("repository" :> MkStr(ImgA) @@ "tag" :> MkStr(V1))}

\* blocks whose tag is a mapping or a sequence
DeepBlocks ==
    {MkMap("repository" :> MkStr(img) @@ "tag" :> t) :
        img \in ImageNames, t \in Inner \cup {MkSeq(<<x>>) : x \in Inner}}

Blocks == LeafBlocks \cup DeepBlocks

PlainBlocks ==
    {MkMap("repository" :> MkStr(ImgA) @@ "tag" :> MkStr(V1)),
     MkMap("repository" :> MkStr(ImgA)),
     MkMap("repository" :> MkStr(ImgB) @@ "tag" :> MkStr(V1)),
     MkMap("repository" :> MkStr(ImgA) @@ "tag" :> MkStr(Ref(ImgA, V1)))}

\* Aspire-style maps of inline references
InlineMaps ==
    {MkMap("api" :> v) : v \in {MkStr(Ref(ImgA, V1)), MkStr(PortRef), MkStr(Ref(ImgB, V1)),
                                 MkStr(Ref(ImgA, VBad))}}
    \cup {MkMap("api" :> MkStr(Ref(ImgA, V1)) @@ "web" :> MkStr(Ref(ImgB, V1))),
          MkMap("api" :> MkStr(PortRef) @@ "web" :> MkStr(Ref(ImgA, VBad)))}

ListItems ==
    {MkStr(Ref(ImgA, V1)),
     MkMap("repository" :> MkStr(ImgA) @@ "tag" :> MkStr(V1)),
     MkMap("k" :> MkStr(Ref(ImgA, V1))),
     MkSeq(<<MkMap("repository" :> MkStr(ImgA))>>)}

Lists == UNION {{MkSeq(q) : q \in [1..n -> ListItems]} : n \in 1..MaxSeqLen}

\* the values trees a run can start from
Trees ==
    Blocks
    \cup {MkMap("image" :> b) : b \in Blocks}
    \cup {MkMap("image" :> b @@ "images" :> m) : b \in PlainBlocks, m \in InlineMaps}
    \cup {MkMap("image" :> b @@ "other" :> d) : b \in PlainBlocks, d \in DeepBlocks}
    \cup {MkMap("list" :> l) : l \in Lists}

\* the update directives of the multi-image runs
UpdateMaps == UNION {[D -> Versions] : D \in SUBSET ImageNames}

\* a HelmRelease document around a values node
Doc(meta, vals) ==
    MkMap("kind" :> MkStr(<<"H">>) @@ "metadata" :> meta @@ "spec" :> MkMap("values" :> vals))

PlainMeta == MkMap("name" :> MkStr(<<"n">>))

StampedMeta == MkMap("name" :> MkStr(<<"n">>) @@ "creationTimestamp" :> MkStr(<<"t">>))

OkFile(doc) == [state |-> "ok", writable |-> TRUE, doc |-> doc]

NoFile == [state |-> "unreadable", writable |-> FALSE, doc |-> MkMap(EmptyMap)]

Files ==
    {OkFile(Doc(PlainMeta, t)) : t \in Trees}
    \cup {OkFile(SetKey(Doc(meta, MkMap("image" :> b)), "status", st)) :
             meta \in {PlainMeta, StampedMeta}, b \in PlainBlocks,
             st \in {MkMap(EmptyMap), MkMap("observedGeneration" :> MkNum)}}
    \cup {OkFile(Doc(StampedMeta, MkMap("image" :> b))) : b \in PlainBlocks}
    \cup {[state |-> "ok", writable |-> FALSE, doc |-> Doc(PlainMeta, MkMap("image" :> b))] :
             b \in PlainBlocks}
    \cup {OkFile(Doc(PlainMeta, MkSeq(<<>>))),
          OkFile(MkMap("metadata" :> PlainMeta @@ "spec" :> MkMap(EmptyMap))),
          [state |-> "badyaml", writable |-> TRUE, doc |-> MkMap(EmptyMap)],
          NoFile}

NoSem == [s |-> <<>>, valid |-> FALSE, done |-> TRUE]

NoSan == [pre |-> MkMap(EmptyMap), once |-> MkMap(EmptyMap), doc |-> MkMap(EmptyMap), n |-> 0]

NoChart ==
    [loads |-> FALSE, deployment |-> FALSE, tmpl |-> <<>>, tmplWritable |-> FALSE,
     vals |-> [state |-> "unreadable", doc |-> MkMap(EmptyMap)], valsWritable |-> FALSE,
     renders |-> FALSE]

NoInj == [n |-> 0, pre |-> NoChart, result |-> "nil"]

OthersIdle ==
    /\ sem = NoSem
    /\ san = NoSan
    /\ chart = NoChart
    /\ inj = NoInj

(***************************************************************************)
(* The runs: calls of BumpTagInValuesUniversal on one values tree          *)
(***************************************************************************)
NoCall ==
    [op |-> "none", imageName |-> <<>>, newVersion |-> <<>>, dryRun |-> FALSE,
     pre |-> MkMap(EmptyMap), changed |-> FALSE, err |-> "nil", decisions |-> {}]

NoMulti ==
    [op |-> "none", updates |-> <<>>, dryRun |-> FALSE, pre |-> NoFile, result |-> "nil",
     values |-> MkMap(EmptyMap), updatedCount |-> 0, trace |-> <<>>, wrote |-> FALSE]

Init ==
    /\ values \in Trees
    /\ last = NoCall
    /\ prev = NoCall
    /\ ncalls = 0
    /\ found = [imageName |-> <<>>, matches |-> <<>>]
    /\ file = NoFile
    /\ mlast = NoMulti
    /\ OthersIdle

\* updated, err := BumpTagInValuesUniversal(values, imageName, newVersion, dryRun)
CallBump(dryRun) ==
    /\ ncalls < MaxCalls
    /\ \E imageName \in ImageNames, newVersion \in Versions :
         \E r \in BumpTagInValuesUniversal(values, imageName, newVersion, dryRun) :
            /\ values' = r.values
            /\ last' = [op |-> "bump", imageName |-> imageName, newVersion |-> newVersion,
                        dryRun |-> dryRun, pre |-> values, changed |-> r.updated,
                        err |-> r.err, decisions |-> r.decisions]
            /\ prev' = last
            /\ ncalls' = ncalls + 1
    /\ UNCHANGED <<found, file, mlast, others>>

BumpReal == CallBump(FALSE)

BumpDryRun == CallBump(TRUE)

Next == BumpReal \/ BumpDryRun

Spec == Init /\ [][Next]_vars

\* matches := findImageBlocksUniversal(values, imageName)
Find ==
    /\ found.imageName = <<>>
    /\ \E imageName \in ImageNames :
         \E matches \in findImageBlocksUniversal(values, imageName) :
            found' = [imageName |-> imageName, matches |-> matches]
    /\ UNCHANGED <<values, last, prev, ncalls, file, mlast, others>>

SpecFind == Init /\ [][Find]_vars

(***************************************************************************)
(* The runs of the bump command on one HelmRelease file: the command       *)
(* calls BumpMultipleTagsUniversalAndSanitize once and exits               *)
(***************************************************************************)
InitMulti ==
    /\ values = MkMap(EmptyMap)
    /\ last = NoCall
    /\ prev = NoCall
    /\ ncalls = 0
    /\ found = [imageName |-> <<>>, matches |-> <<>>]
    /\ file \in Files
    /\ mlast = NoMulti
    /\ OthersIdle

\* err := BumpMultipleTagsUniversalAndSanitize(filePath, updates, dryRun)
CallMulti(dryRun) ==
    /\ mlast.op = "none"
    /\ \E updates \in UpdateMaps :
         \E r \in BumpMultipleTagsUniversalAndSanitize(file, updates, dryRun) :
            /\ file' = r.file
            /\ mlast' = [op |-> "multi", updates |-> updates, dryRun |-> dryRun,
                         pre |-> file, result |-> r.result, values |-> r.values,
                         updatedCount |-> r.updatedCount, trace |-> r.trace,
                         wrote |-> r.wrote]
    /\ UNCHANGED <<values, last, prev, ncalls, found, others>>

MultiReal == CallMulti(FALSE)

MultiDryRun == CallMulti(TRUE)

NextMulti == MultiReal \/ MultiDryRun

SpecMulti == InitMulti /\ [][NextMulti]_vars

(***************************************************************************)
(* The two calls of TestBumpTagInValuesUniversalTwo, on trees of the       *)
(* shape the test builds                                                   *)
(***************************************************************************)
\* "ghcr.io/my-org/"
MyOrg == <<"g", "h", "c", "r", ".", "i", "o", "/", "m", "y", "-", "o", "r", "g", "/">>

RepoApi == MyOrg \o <<"a", "p", "i">>

RepoWebApp == MyOrg \o <<"w", "e", "b", "-", "a", "p", "p">>

RepoMyApi == MyOrg \o <<"m", "y", "-", "a", "p", "i">>

V123 == <<"1", ".", "2", ".", "3">>

V124 == <<"1", ".", "2", ".", "4">>

V138 == <<"1", ".", "3", ".", "8">>

V139 == <<"1", ".", "3", ".", "9">>

\* "nginx:1.25.0"
NginxRef == <<"n", "g", "i", "n", "x", ":", "1", ".", "2", "5", ".", "0">>

ExampleImages ==
    {MkMap(EmptyMap), MkMap("nginx" :> MkStr(NginxRef))}
    \cup {MkMap("api" :> MkStr(Ref(RepoApi, v))) : v \in {V138, V139}}
    \cup {MkMap("api" :> MkStr(Ref(RepoApi, v)) @@ "nginx" :> MkStr(NginxRef)) : v \in {V138, V139}}

ExampleTrees ==
    {MkMap("image" :> MkMap("repository" :> MkStr(repo) @@ "tag" :> MkStr(tag)) @@ "images" :> m) :
        repo \in {RepoWebApp, RepoMyApi, RepoApi}, tag \in {V123, V124}, m \in ExampleImages}

InitExample ==
    /\ values \in ExampleTrees
    /\ last = NoCall
    /\ prev = NoCall
    /\ ncalls = 0
    /\ found = [imageName |-> <<>>, matches |-> <<>>]
    /\ file = NoFile
    /\ mlast = NoMulti
    /\ OthersIdle

\* updated, err := BumpTagInValuesUniversal(values, imageName, newVersion, false)
CallExample(imageName, newVersion) ==
    /\ \E r \in BumpTagInValuesUniversal(values, imageName, newVersion, FALSE) :
            /\ values' = r.values
            /\ last' = [op |-> "bump", imageName |-> imageName, newVersion |-> newVersion,
                        dryRun |-> FALSE, pre |-> values, changed |-> r.updated,
                        err |-> r.err, decisions |-> r.decisions]
            /\ prev' = last
            /\ ncalls' = ncalls + 1
    /\ UNCHANGED <<found, file, mlast, others>>

\* the first call of the test
ExampleFirst == ncalls = 0 /\ CallExample(RepoApi, V139)

\* the second call of the test
ExampleSecond == ncalls = 1 /\ CallExample(RepoWebApp, V124)

NextExample == ExampleFirst \/ ExampleSecond

SpecExample == InitExample /\ [][NextExample]_vars

(***************************************************************************)
(* The runs of sanitizeHelmRelease on one document                         *)
(***************************************************************************)
\* the documents yaml.Unmarshal can hand to sanitizeHelmRelease
SanDocs ==
    OptionalFields(
       [metadata |-> {MkStr(<<"n">>), MkMap(EmptyMap), PlainMeta, StampedMeta,
                      MkMap("creationTimestamp" :> MkNum),
                      MkMap("creationTimestamp" :> MkMap("status" :> MkMap(EmptyMap)))},
        status |-> {MkMap(EmptyMap), MkMap("observedGeneration" :> MkNum), MkStr(<<>>), MkNum,
                    MkSeq(<<>>), MkSeq(<<MkMap(EmptyMap)>>)},
        spec |-> {MkMap("status" :> MkMap(EmptyMap) @@ "metadata" :> StampedMeta)}])

InitSanitize ==
    /\ values = MkMap(EmptyMap)
    /\ last = NoCall
    /\ prev = NoCall
    /\ ncalls = 0
    /\ found = [imageName |-> <<>>, matches |-> <<>>]
    /\ file = NoFile
    /\ mlast = NoMulti
    /\ sem = NoSem
    /\ san \in {[pre |-> d, once |-> d, doc |-> d, n |-> 0] : d \in SanDocs}
    /\ chart = NoChart
    /\ inj = NoInj

\* sanitizeHelmRelease(hrMap)
Sanitize ==
    /\ san.n < MaxCalls
    /\ san' = [pre |-> san.pre,
               once |-> IF san.n = 0 THEN sanitizeHelmRelease(san.doc) ELSE san.once,
               doc |-> sanitizeHelmRelease(san.doc),
               n |-> san.n + 1]
    /\ UNCHANGED <<values, last, prev, ncalls, found, file, mlast, sem, chart, inj>>

SpecSanitize == InitSanitize /\ [][Sanitize]_vars

(***************************************************************************)
(* The runs of BumpTagInValues: one call on one values tree                *)
(***************************************************************************)
\* updated, err := BumpTagInValues(values, imageName, newVersion, dryRun)
CallBlocks(dryRun) ==
    /\ last.op = "none"
    /\ \E imageName \in ImageNames, newVersion \in Versions :
         \E r \in BumpTagInValues(values, imageName, newVersion, dryRun) :
            /\ values' = r.values
            /\ last' = [op |-> "blocks", imageName |-> imageName, newVersion |-> newVersion,
                        dryRun |-> dryRun, pre |-> values, changed |-> r.updated,
                        err |-> r.err, decisions |-> r.decisions]
            /\ prev' = last
            /\ ncalls' = ncalls + 1
    /\ UNCHANGED <<found, file, mlast, others>>

BlocksReal == CallBlocks(FALSE)

BlocksDryRun == CallBlocks(TRUE)

NextBlocks == BlocksReal \/ BlocksDryRun

SpecBlocks == Init /\ [][NextBlocks]_vars

(***************************************************************************)
(* The runs of InjectImagePullSecrets on one chart directory               *)
(***************************************************************************)
MaxLines == 3

\* "spec:", "  spec: ", "  template:", "template: x", "x", "spec: x"
LineKinds ==
    {<<"s", "p", "e", "c", ":">>,
     <<" ", " ", "s", "p", "e", "c", ":", " ">>,
     <<" ", " ", "t", "e", "m", "p", "l", "a", "t", "e", ":">>,
     <<"t", "e", "m", "p", "l", "a", "t", "e", ":", " ", "x">>,
     <<"x">>,
     <<"s", "p", "e", "c", ":", " ", "x">>}

\* the texts of a deployment.yaml, as their lines
TemplateDatas == UNION {[1..n -> LineKinds] : n \in 1..MaxLines}

ValuesDocs ==
    {MkMap(EmptyMap),
     MkMap("image" :> MkStr(ImgA)),
     MkMap("image" :> MkMap("repository" :> MkStr(ImgA))),
     MkMap("image" :> MkMap("imagePullSecret" :> MkStr(<<"s">>)))}

OkChart(lines, doc) ==
    [loads |-> TRUE, deployment |-> TRUE, tmpl |-> lines, tmplWritable |-> TRUE,
     vals |-> [state |-> "ok", doc |-> doc], valsWritable |-> TRUE, renders |-> TRUE]

Charts ==
    {OkChart(lines, doc) : lines \in TemplateDatas, doc \in ValuesDocs}
    \cup UNION {{[c EXCEPT !.loads = FALSE], [c EXCEPT !.deployment = FALSE],
                 [c EXCEPT !.tmplWritable = FALSE], [c EXCEPT !.valsWritable = FALSE],
                 [c EXCEPT !.renders = FALSE], [c EXCEPT !.vals.state = "unreadable"],
                 [c EXCEPT !.vals.state = "badyaml"], [c EXCEPT !.vals.state = "empty"]} :
                c \in {OkChart(<<k, SpecKey>>, doc) : k \in LineKinds, doc \in ValuesDocs}}

InitInject ==
    /\ values = MkMap(EmptyMap)
    /\ last = NoCall
    /\ prev = NoCall
    /\ ncalls = 0
    /\ found = [imageName |-> <<>>, matches |-> <<>>]
    /\ file = NoFile
    /\ mlast = NoMulti
    /\ sem = NoSem
    /\ san = NoSan
    /\ chart \in Charts
    /\ inj = NoInj

\* err := InjectImagePullSecrets(chartDir)
Inject ==
    /\ inj.n < MaxCalls
    /\ LET r == InjectImagePullSecrets(chart)
       IN  /\ chart' = r.chart
           /\ inj' = [n |-> inj.n + 1, pre |-> chart, result |-> r.result]
    /\ UNCHANGED <<values, last, prev, ncalls, found, file, mlast, sem, san>>

SpecInject == InitInject /\ [][Inject]_vars

(***************************************************************************)
(* The runs of isValidSemver on one string                                 *)
(***************************************************************************)
MaxTail == 3

\* the strings over chars of length n
RECURSIVE StringsOfLen(_, _)
StringsOfLen(chars, n) ==
    IF n = 0 THEN {<<>>}
    ELSE {Append(x, c) : x \in StringsOfLen(chars, n - 1), c \in chars}

SemverHeads == {<<>>, <<"v">>, <<"V">>, <<"v", "v">>}

SemverCores ==
    {<<>>,
     <<"1", ".", "0", ".", "0">>,
     <<"1", "2", ".", "3", ".", "4", "5">>,
     <<"1", ".", "0">>,
     <<"1", ".", "0", ".">>,
     <<"1", ".", ".", "0">>,
     <<".", "1", ".", "0">>,
     <<"1", ".", "a", ".", "0">>,
     <<"a", ".", "0", ".", "0">>,
     <<"1", ".", "0", ".", "a">>,
     <<"1", ".", "0", ".", "0", ".", "0">>,
     <<"1", ".", "0", ".", "0", "-", "a">>,
     <<"1", "-", "0", "-", "0">>}

SemverTails == UNION {StringsOfLen({"-", "+", "a", "1", ".", "_"}, n) : n \in 0..MaxTail}

SemverInputs == {h \o c \o t : h \in SemverHeads, c \in SemverCores, t \in SemverTails}

InitSemver ==
    /\ values = MkMap(EmptyMap)
    /\ last = NoCall
    /\ prev = NoCall
    /\ ncalls = 0
    /\ found = [imageName |-> <<>>, matches |-> <<>>]
    /\ file = NoFile
    /\ mlast = NoMulti
    /\ sem \in {[s |-> x, valid |-> FALSE, done |-> FALSE] : x \in SemverInputs}
    /\ san = NoSan
    /\ chart = NoChart
    /\ inj = NoInj

\* ok := isValidSemver(tag)
CheckSemver ==
    /\ ~sem.done
    /\ sem' = [s |-> sem.s, valid |-> isValidSemver(sem.s), done |-> TRUE]
    /\ UNCHANGED <<values, last, prev, ncalls, found, file, mlast, san, chart, inj>>

SpecSemver == InitSemver /\ [][CheckSemver]_vars

(***************************************************************************)
(* What the claims speak of, read off a tree                               *)
(***************************************************************************)
\* the paths of the mappings of a tree
RECURSIVE MapPaths(_, _)
MapPaths(node, p) ==
    IF node.t = "map"
    THEN {p} \cup UNION {MapPaths(node.v[k], Append(p, AtKey(k))) : k \in DOMAIN node.v}
    ELSE IF node.t = "seq"
    THEN UNION {MapPaths(node.v[i], Append(p, AtIdx(i))) : i \in 1..Len(node.v)}
    ELSE {}

\* the mappings whose repository is a string equal to imageName
BlockSites(tree, imageName) ==
    {p \in MapPaths(tree, <<>>) :
        /\ "repository" \in DOMAIN Get(tree, p).v
        /\ Get(tree, p).v["repository"] = MkStr(imageName)}

\* the entries whose value is a string that starts with imageName:
InlineSites(tree, imageName) ==
    UNION {{InlineMatch(p, k, Get(tree, p).v[k].v) :
               k \in {x \in DOMAIN Get(tree, p).v :
                         /\ Get(tree, p).v[x].t = "str"
                         /\ HasPrefix(Get(tree, p).v[x].v, Ref(imageName, <<>>))}} :
           p \in MapPaths(tree, <<>>)}

SitesOf(tree, imageName) ==
    {BlockMatch(p) : p \in BlockSites(tree, imageName)} \cup InlineSites(tree, imageName)

\* the text after the last ':' of s, s itself when it has none
AfterLastColon(s) ==
    LET colons == {j \in 1..Len(s) : s[j] = ":"}
    IN  IF colons = {} THEN s
        ELSE SubSeq(s, (CHOOSE j \in colons : \A l \in colons : l <= j) + 1, Len(s))

\* the tag of the mapping at p as the rewriter reads it
TagOf(tree, p) ==
    IF "tag" \in DOMAIN Get(tree, p).v /\ Get(tree, p).v["tag"].t = "str"
    THEN Get(tree, p).v["tag"].v
    ELSE <<>>

\* the version a site is at
CurrentOf(tree, site) ==
    IF site.kind = "block" THEN TagOf(tree, site.path) ELSE AfterLastColon(site.value)

\* the entry key of the mapping at p is the string s in tree
EntryIs(tree, p, key, s) ==
    /\ HasPath(tree, p)
    /\ Get(tree, p).t = "map"
    /\ key \in DOMAIN Get(tree, p).v
    /\ Get(tree, p).v[key] = MkStr(s)

RealCall == last.op = "bump" /\ ~last.dryRun

(***************************************************************************)
(* Claims                                                                  *)
(***************************************************************************)
\* C1: if a non-dry-run call returns changed = true, the same call made
\* again on the tree it left returns changed = false.
C1_SecondCallUnchanged ==
    (/\ RealCall
     /\ prev.op = "bump" /\ ~prev.dryRun
     /\ prev.imageName = last.imageName
     /\ prev.newVersion = last.newVersion
     /\ prev.changed)
    => ~last.changed

\* C2: a dry-run call leaves the tree equal to the tree before it, every
\* node included, and returns changed = true whenever the same call without
\* dry-run would have applied an update.
C2_DryRunPure ==
    (last.op = "bump" /\ last.dryRun)
    => /\ values = last.pre
       /\ \A r \in BumpTagInValuesUniversal(last.pre, last.imageName, last.newVersion, FALSE) :
             r.updated => last.changed

\* a dry-run call that reports a change the real call would write
C2_Witness ==
    /\ last.op = "bump" /\ last.dryRun /\ last.changed
    /\ \E r \in BumpTagInValuesUniversal(last.pre, last.imageName, last.newVersion, FALSE) :
          r.values # last.pre

\* C3: with a block {repository: I, tag: T} and elsewhere an inline value
\* "I:T", one non-dry-run call with a valid V # T sets the tag of the block
\* to V and the inline value to "I:V", and returns changed = true.
C3_MixedBothUpdated ==
    (RealCall /\ isValidSemver(last.newVersion))
    => \A p \in BlockSites(last.pre, last.imageName), m \in InlineSites(last.pre, last.imageName) :
          (/\ "tag" \in DOMAIN Get(last.pre, p).v
           /\ Get(last.pre, p).v["tag"].t = "str"
           /\ TagOf(last.pre, p) # last.newVersion
           /\ m.value = Ref(last.imageName, TagOf(last.pre, p))
           /\ ~(m.path = p /\ m.key = "tag"))
          => /\ EntryIs(values, p, "tag", last.newVersion)
             /\ EntryIs(values, m.path, m.key, Ref(last.imageName, last.newVersion))
             /\ last.changed

\* C5: with no mapping whose repository is the image name and no string
\* value starting with image name + ":", the call returns (false, nil) and
\* leaves the tree unchanged, in dry-run and in real mode.
C5_NoMatch ==
    (last.op = "bump" /\ SitesOf(last.pre, last.imageName) = {})
    => /\ ~last.changed
       /\ last.err = "nil"
       /\ values = last.pre

\* a real call for an image the tree does not mention
C5_Witness ==
    /\ RealCall
    /\ isValidSemver(last.newVersion)
    /\ SitesOf(last.pre, last.imageName) = {}
    /\ MapPaths(last.pre, <<>>) # {<<>>}

\* C6: changed is true exactly when some match of the call has a current
\* version different from the requested one and the requested one is valid;
\* it is false with no match and when every match is skipped.
C6_ChangedMeaning ==
    last.op = "bump"
    => (last.changed <=>
          /\ isValidSemver(last.newVersion)
          /\ \E site \in SitesOf(last.pre, last.imageName) :
                CurrentOf(last.pre, site) # last.newVersion)

\* a call that skips one match as current and updates another
C6_Witness ==
    /\ last.op = "bump" /\ last.changed
    /\ \E site \in SitesOf(last.pre, last.imageName) :
          CurrentOf(last.pre, site) = last.newVersion

\* C8: an inline match applied in non-dry-run mode leaves P[K] equal to
\* image name + ":" + new version in the caller's tree.
C8_InlineRewritten ==
    (RealCall /\ isValidSemver(last.newVersion))
    => \A m \in InlineSites(last.pre, last.imageName) :
          AfterLastColon(m.value) # last.newVersion
          => EntryIs(values, m.path, m.key, Ref(last.imageName, last.newVersion))

\* C9: for a mapping M whose repository is the image name and whose current
\* tag (empty when absent or not a string) differs from a valid new version,
\* a non-dry-run call sets M["tag"] to the new version in the caller's tree
\* and leaves M["repository"] unchanged.
C9_BlockRewritten ==
    (RealCall /\ isValidSemver(last.newVersion))
    => \A p \in BlockSites(last.pre, last.imageName) :
          TagOf(last.pre, p) # last.newVersion
          => /\ EntryIs(values, p, "tag", last.newVersion)
             /\ EntryIs(values, p, "repository", last.imageName)

\* C10: findImageBlocksUniversal returns one structured match for each
\* mapping whose repository is the image name, one inline match for each
\* entry whose string value starts with image name + ":", and nothing else.
C10_MatcherExact ==
    found.imageName # <<>>
    => /\ {found.matches[i] : i \in 1..Len(found.matches)} = SitesOf(values, found.imageName)
       /\ Len(found.matches) = Cardinality(SitesOf(values, found.imageName))

\* one mapping, below the root, gives a structured and an inline match
C10_Witness ==
    \E i, j \in 1..Len(found.matches) :
        /\ found.matches[i].kind = "block"
        /\ found.matches[j].kind = "inline"
        /\ found.matches[i].path = found.matches[j].path
        /\ found.matches[i].path # <<>>

\* C4: a call with a version that fails isValidSemver changes nothing in
\* the tree and returns changed = false; in a multi-image call every entry
\* is still processed, and the tree and the count are those the entries
\* with valid versions give.
C4_InvalidRejected ==
    (mlast.op = "multi" /\ mlast.trace # <<>>)
    => /\ \A i \in 1..Len(mlast.trace) :
             ~isValidSemver(mlast.trace[i].newVersion)
             => mlast.trace[i].post = mlast.trace[i].pre /\ ~mlast.trace[i].changed
       /\ {mlast.trace[i].imageName : i \in 1..Len(mlast.trace)} = DOMAIN mlast.updates
       /\ \E only \in UpdateAll(mlast.pre.doc.v["spec"].v["values"],
                                [n \in {x \in DOMAIN mlast.updates :
                                           isValidSemver(mlast.updates[x])} |-> mlast.updates[n]],
                                mlast.dryRun) :
             /\ only.values = mlast.values
             /\ only.updatedCount = mlast.updatedCount

\* a real run with an invalid entry that has matches and a valid entry
\* that is written to the file
C4_Witness ==
    /\ mlast.op = "multi" /\ ~mlast.dryRun
    /\ mlast.updatedCount = 1
    /\ file # mlast.pre
    /\ \E i \in 1..Len(mlast.trace) :
          /\ ~isValidSemver(mlast.trace[i].newVersion)
          /\ SitesOf(mlast.trace[i].pre, mlast.trace[i].imageName) # {}

\* C7: BumpTagInValuesUniversal returns a nil error for every tree, image
\* name, version and dry-run flag, so the multi-image loop never returns
\* through its error branch.
C7_NeverAnError ==
    mlast.op = "multi"
    => /\ \A i \in 1..Len(mlast.trace) : mlast.trace[i].err = "nil"
       /\ mlast.result # "error updating image"

\* a run whose calls meet an invalid version on a match and an image with
\* no match
C7_Witness ==
    /\ mlast.op = "multi"
    /\ mlast.result = "nil"
    /\ \E i, j \in 1..Len(mlast.trace) :
          /\ ~isValidSemver(mlast.trace[i].newVersion)
          /\ SitesOf(mlast.trace[i].pre, mlast.trace[i].imageName) # {}
          /\ SitesOf(mlast.trace[j].pre, mlast.trace[j].imageName) = {}


\* C11: the multi-image loop calls BumpTagInValuesUniversal once for each
\* entry of the updates map, each call on the tree the call before left,
\* and updatedCount is the number of image names whose call returned
\* changed = true, between 0 and the number of entries.
C11_CountsImages ==
    (mlast.op = "multi" /\ mlast.pre.state = "ok"
       /\ HasKey(mlast.pre.doc.v["spec"], "values")
       /\ mlast.pre.doc.v["spec"].v["values"].t = "map")
    => /\ Len(mlast.trace) = Cardinality(DOMAIN mlast.updates)
       /\ {mlast.trace[i].imageName : i \in 1..Len(mlast.trace)} = DOMAIN mlast.updates
       /\ \A i \in 1..Len(mlast.trace) :
             /\ mlast.trace[i].newVersion = mlast.updates[mlast.trace[i].imageName]
             /\ mlast.trace[i].pre =
                   IF i = 1 THEN mlast.pre.doc.v["spec"].v["values"] ELSE mlast.trace[i - 1].post
       /\ mlast.updatedCount = Cardinality({i \in 1..Len(mlast.trace) : mlast.trace[i].changed})
       /\ mlast.updatedCount \in 0..Cardinality(DOMAIN mlast.updates)

\* two entries: one image changed at two places, the other not changed
C11_Witness ==
    /\ mlast.op = "multi"
    /\ Len(mlast.trace) = 2
    /\ mlast.updatedCount = 1
    /\ \E i \in 1..2 :
          /\ mlast.trace[i].changed
          /\ Cardinality({site \in SitesOf(mlast.trace[i].pre, mlast.trace[i].imageName) :
                             CurrentOf(mlast.trace[i].pre, site) # mlast.trace[i].newVersion}) >= 2

\* C12: the file is written only in a run that is not a dry-run and in
\* which an image reported a change; in dry-run mode, with updatedCount 0,
\* and when reading or parsing fails, the file is left as it was.
C12_WriteGuard ==
    mlast.op = "multi"
    => /\ (mlast.wrote \/ file # mlast.pre)
          => /\ ~mlast.dryRun
             /\ mlast.updatedCount >= 1
             /\ \E i \in 1..Len(mlast.trace) : mlast.trace[i].changed
       /\ (\/ mlast.dryRun
           \/ mlast.updatedCount = 0
           \/ mlast.result \in {"failed to read file", "failed to unmarshal HelmRelease",
                                "failed to parse .spec.values"})
          => file = mlast.pre /\ ~mlast.wrote

\* a real run that writes the file, and the file differs
C12_Witness ==
    /\ mlast.op = "multi" /\ ~mlast.dryRun
    /\ mlast.wrote
    /\ mlast.result = "nil"
    /\ file # mlast.pre


\* every character of s[from..to] is in class
AllIn(s, from, to, class) == \A i \in from..to : s[i] \in class

\* s is: an optional v, three non-empty digit runs with a '.' between them
\* (ending at e1, e2, e3), an optional '-' and one or more identifier
\* characters (ending at e4), an optional '+' and one or more identifier
\* characters, and nothing else
SemverShape(s) ==
    \E a \in 0..1 :
      /\ a = 1 => (Len(s) >= 1 /\ s[1] = "v")
      /\ \E e1 \in (a + 1)..(Len(s) - 1) :
           /\ AllIn(s, a + 1, e1, Digits)
           /\ s[e1 + 1] = "."
           /\ \E e2 \in (e1 + 2)..(Len(s) - 1) :
                /\ AllIn(s, e1 + 2, e2, Digits)
                /\ s[e2 + 1] = "."
                /\ \E e3 \in (e2 + 2)..Len(s) :
                     /\ AllIn(s, e2 + 2, e3, Digits)
                     /\ \E e4 \in e3..Len(s) :
                          /\ \/ e4 = e3
                             \/ /\ e4 >= e3 + 2
                                /\ s[e3 + 1] = "-"
                                /\ AllIn(s, e3 + 2, e4, Letters \cup Digits \cup {".", "-"})
                          /\ \/ e4 = Len(s)
                             \/ /\ Len(s) >= e4 + 2
                                /\ s[e4 + 1] = "+"
                                /\ AllIn(s, e4 + 2, Len(s), Letters \cup Digits \cup {".", "-"})

\* C13: isValidSemver(s) is true exactly when s has the semver shape; it is
\* false for the empty string, for a missing or non-numeric component and
\* for an empty pre-release or build token.
C13_SemverGate ==
    sem.done /\ sem # NoSem
    => /\ sem.valid <=> SemverShape(sem.s)
       /\ sem.s = <<>> => ~sem.valid
       /\ sem.s \in {<<"1", ".", "0">>, <<"1", ".", "a", ".", "0">>,
                     <<"1", ".", "0", ".", "0", "-">>, <<"1", ".", "0", ".", "0", "+">>,
                     <<"1", ".", "0", ".", "0", "-", "a", "+">>} => ~sem.valid

\* a string with v, a pre-release and a build part is accepted
C13_Witness ==
    /\ sem.done /\ sem.valid
    /\ sem.s = <<"v", "1", ".", "0", ".", "0", "-", "a", "+", "1">>


\* the tree the example starts from, with the given repository of the image block
ExampleStart(repo) ==
    MkMap("image" :> MkMap("repository" :> MkStr(repo) @@ "tag" :> MkStr(V123))
          @@ "images" :> MkMap("api" :> MkStr(Ref(RepoApi, V138))))

\* C14 as stated: from the tree with repository "ghcr.io/my-org/my-api" the
\* first call makes images.api "ghcr.io/my-org/api:1.3.9" with changed=true
\* and the second makes image.tag "1.2.4" with changed=true.
C14_ExampleAsStated ==
    /\ (ncalls >= 1 /\ (IF ncalls = 1 THEN last ELSE prev).pre = ExampleStart(RepoMyApi))
       => /\ (IF ncalls = 1 THEN last ELSE prev).changed
          /\ Get(IF ncalls = 1 THEN values ELSE last.pre, <<AtKey("images"), AtKey("api")>>)
               = MkStr(Ref(RepoApi, V139))
    /\ (ncalls = 2 /\ prev.pre = ExampleStart(RepoMyApi))
       => /\ last.changed
          /\ Get(values, <<AtKey("image"), AtKey("tag")>>) = MkStr(V124)

\* C14, amended: the same two calls from the tree whose image block has
\* repository "ghcr.io/my-org/web-app" (the tree of the test) give
\* images.api "ghcr.io/my-org/api:1.3.9" with changed=true, then image.tag
\* "1.2.4" with changed=true; from the tree with repository
\* "ghcr.io/my-org/my-api" the second call changes nothing and returns false.
C14_Example ==
    /\ (ncalls >= 1 /\ (IF ncalls = 1 THEN last ELSE prev).pre
                          \in {ExampleStart(RepoWebApp), ExampleStart(RepoMyApi)})
       => /\ (IF ncalls = 1 THEN last ELSE prev).changed
          /\ (IF ncalls = 1 THEN last ELSE prev).err = "nil"
          /\ Get(IF ncalls = 1 THEN values ELSE last.pre, <<AtKey("images"), AtKey("api")>>)
               = MkStr(Ref(RepoApi, V139))
          /\ Get(IF ncalls = 1 THEN values ELSE last.pre, <<AtKey("image")>>)
               = Get((IF ncalls = 1 THEN last ELSE prev).pre, <<AtKey("image")>>)
    /\ (ncalls = 2 /\ prev.pre = ExampleStart(RepoWebApp))
       => /\ last.changed /\ last.err = "nil"
          /\ Get(values, <<AtKey("image"), AtKey("tag")>>) = MkStr(V124)
          /\ Get(values, <<AtKey("images"), AtKey("api")>>) = MkStr(Ref(RepoApi, V139))
    /\ (ncalls = 2 /\ prev.pre = ExampleStart(RepoMyApi))
       => /\ ~last.changed /\ last.err = "nil"
          /\ values = last.pre
          /\ Get(values, <<AtKey("image"), AtKey("tag")>>) = MkStr(V123)

\* both calls have run on the tree of the test
C14_Witness ==
    /\ ncalls = 2
    /\ prev.pre = ExampleStart(RepoWebApp)
    /\ last.changed
    /\ Get(values, <<AtKey("image"), AtKey("tag")>>) = MkStr(V124)


\* the string an inline decision of the last call was taken on
DecidedValue(d) == Get(last.pre, d.path).v[d.key].v

\* C15: for an inline match the current version is the text after the last
\* ':' of the matched value; the match is skipped as already-current exactly
\* when that text equals the new version, also when the new version is not
\* a valid semver, and otherwise it is skipped as invalid exactly when the
\* new version is not a valid semver.
C15_InlineCurrent ==
    last.op = "bump"
    => \A d \in last.decisions :
          d.kind = "inline"
          => /\ d.outcome = "current"
                  <=> AfterLastColon(DecidedValue(d)) = last.newVersion
             /\ d.outcome = "invalid"
                  <=> /\ AfterLastColon(DecidedValue(d)) # last.newVersion
                      /\ ~isValidSemver(last.newVersion)
             /\ d.outcome = "apply"
                  <=> /\ AfterLastColon(DecidedValue(d)) # last.newVersion
                      /\ isValidSemver(last.newVersion)

\* an inline value with two colons is found current at its last segment, and
\* in another call an inline value is found current at an invalid version
C15_Witness ==
    /\ last.op = "bump" /\ prev.op = "bump"
    /\ \E d \in last.decisions :
          /\ d.kind = "inline" /\ d.outcome = "current"
          /\ DecidedValue(d) = PortRef
          /\ last.newVersion = V2
    /\ \E d \in prev.decisions :
          /\ d.kind = "inline" /\ d.outcome = "current"
          /\ prev.newVersion = VBad


\* the site a decision was taken on
SiteOf(d) ==
    IF d.kind = "block" THEN BlockMatch(d.path)
    ELSE InlineMatch(d.path, d.key, DecidedValue(d))

\* site is at version v in tree
SiteAt(tree, site, imageName, v) ==
    IF site.kind = "block" THEN EntryIs(tree, site.path, "tag", v)
    ELSE EntryIs(tree, site.path, site.key, Ref(imageName, v))

\* C16: every match of a call is evaluated: each location of the image has a
\* decision; a location that is not at a valid new version is applied and
\* the call returns changed = true, whatever was decided for the other
\* locations; with two locations, one at the new version and one not, the
\* first is skipped and the second ends at the new version, for every order
\* of the two.
C16_Independent ==
    last.op = "bump"
    => /\ {SiteOf(d) : d \in last.decisions} = SitesOf(last.pre, last.imageName)
       /\ \A d \in last.decisions :
             (CurrentOf(last.pre, SiteOf(d)) # last.newVersion /\ isValidSemver(last.newVersion))
             => d.outcome = "apply" /\ last.changed
       /\ \A d, e \in last.decisions :
             (/\ ~last.dryRun
              /\ last.decisions = {d, e}
              /\ isValidSemver(last.newVersion)
              /\ CurrentOf(last.pre, SiteOf(d)) = last.newVersion
              /\ CurrentOf(last.pre, SiteOf(e)) # last.newVersion)
             => /\ d.outcome = "current"
                /\ e.outcome = "apply"
                /\ last.changed
                /\ SiteAt(values, SiteOf(e), last.imageName, last.newVersion)

\* a real call on a tree with two locations, one already at the new version
C16_Witness ==
    /\ RealCall /\ last.changed
    /\ Cardinality(last.decisions) = 2
    /\ \E d, e \in last.decisions :
          /\ d.outcome = "current" /\ e.outcome = "apply"
          /\ d.path # e.path
          /\ SiteAt(values, SiteOf(e), last.imageName, last.newVersion)


\* C17: sanitizeHelmRelease removes metadata.creationTimestamp when metadata
\* is a mapping, removes status only when status is a mapping with no
\* entries, and leaves every other key and value as it was; a second
\* application changes nothing.
C17_Sanitize ==
    san.n >= 1
    => /\ san.once.t = "map"
       /\ DOMAIN san.once.v =
             IF "status" \in DOMAIN san.pre.v
                /\ san.pre.v["status"].t = "map"
                /\ DOMAIN san.pre.v["status"].v = {}
             THEN DOMAIN san.pre.v \ {"status"}
             ELSE DOMAIN san.pre.v
       /\ \A k \in DOMAIN san.once.v :
             IF k = "metadata" /\ san.pre.v[k].t = "map"
             THEN /\ san.once.v[k].t = "map"
                  /\ DOMAIN san.once.v[k].v = DOMAIN san.pre.v[k].v \ {"creationTimestamp"}
                  /\ \A j \in DOMAIN san.once.v[k].v : san.once.v[k].v[j] = san.pre.v[k].v[j]
             ELSE san.once.v[k] = san.pre.v[k]
       /\ san.doc = san.once

\* a second application on a document that had a creationTimestamp and a
\* non-empty status
C17_Witness ==
    /\ san.n = 2
    /\ san.once # san.pre
    /\ "status" \in DOMAIN san.once.v
    /\ san.pre.v["metadata"] = StampedMeta
    /\ "spec" \in DOMAIN san.pre.v


\* tree without the tag entries of the mappings whose repository is imageName
RECURSIVE Masked(_, _)
Masked(node, imageName) ==
    IF node.t = "map"
    THEN LET keys == IF "repository" \in DOMAIN node.v /\ node.v["repository"] = MkStr(imageName)
                     THEN DOMAIN node.v \ {"tag"}
                     ELSE DOMAIN node.v
         IN  MkMap([k \in keys |-> Masked(node.v[k], imageName)])
    ELSE IF node.t = "seq"
    THEN MkSeq([i \in 1..Len(node.v) |-> Masked(node.v[i], imageName)])
    ELSE node

\* BumpTagInValues returns true exactly when a mapping with repository equal
\* to the image name exists, never an error, and decides on those mappings
\* only
BlocksReturn ==
    /\ last.err = "nil"
    /\ last.changed <=> BlockSites(last.pre, last.imageName) # {}
    /\ \A d \in last.decisions : d.kind = "block" /\ d.outcome # "none"
    /\ {d.path : d \in last.decisions} = BlockSites(last.pre, last.imageName)

BlockCount(lines) ==
    Cardinality({i \in 1..Len(lines) :
                    /\ i + Len(BlockLines) - 1 <= Len(lines)
                    /\ SubSeq(lines, i, i + Len(BlockLines) - 1) = BlockLines})

\* C19: a run of InjectImagePullSecrets on a chart whose deployment.yaml
\* already holds the block leaves exactly one copy of the block in it.
C19_InjectOnce ==
    (inj.n >= 1 /\ inj.pre.deployment /\ BlockCount(inj.pre.tmpl) >= 1)
    => BlockCount(chart.tmpl) = 1


\* C20: the call made in the other mode from the same tree takes the same
\* decision for every match and returns the same changed value, for every
\* order of the matches; the writes of the real mode do not alter a later
\* decision.
C20_ModesAgree ==
    last.op = "bump"
    => \A r \in BumpTagInValuesUniversal(last.pre, last.imageName, last.newVersion, ~last.dryRun) :
          /\ r.updated = last.changed
          /\ r.err = last.err
          /\ r.decisions = last.decisions

\* a real call that wrote for one match before it decided on another
C20_Witness ==
    /\ RealCall /\ last.changed
    /\ values # last.pre
    /\ Cardinality({d \in last.decisions : d.outcome = "apply"}) >= 2
    /\ \E d, e \in last.decisions : d.kind = "block" /\ e.kind = "inline" /\ e.path = d.path


\* the values tree the last multi-image run read from its file
MultiPre == mlast.pre.doc.v["spec"].v["values"]

\* the last multi-image run got as far as the loop over the updates
MultiLooped ==
    /\ mlast.op = "multi" /\ mlast.pre.state = "ok"
    /\ HasKey(mlast.pre.doc.v["spec"], "values")
    /\ MultiPre.t = "map"

\* C21: the values tree and updatedCount the loop of
\* BumpMultipleTagsUniversalAndSanitize ends with are the same for every
\* order in which the entries of the updates map are processed.
C21_OrderIndependent ==
    MultiLooped
    => \A r \in UpdateAll(MultiPre, mlast.updates, mlast.dryRun) :
          /\ r.values = mlast.values
          /\ r.updatedCount = mlast.updatedCount


\* the paths of all nodes of a tree
RECURSIVE NodePaths(_, _)
NodePaths(node, p) ==
    {p} \cup
    (IF node.t = "map"
     THEN UNION {NodePaths(node.v[k], Append(p, AtKey(k))) : k \in DOMAIN node.v}
     ELSE IF node.t = "seq"
     THEN UNION {NodePaths(node.v[i], Append(p, AtIdx(i))) : i \in 1..Len(node.v)}
     ELSE {})

\* the entries a call for imageName may write: the tag of a mapping whose
\* repository is imageName, and the string entries that start with imageName:
MayWrite(tree, imageName) ==
    {Append(p, AtKey("tag")) : p \in BlockSites(tree, imageName)}
    \cup {Append(s.path, AtKey(s.key)) : s \in InlineSites(tree, imageName)}

\* C22: a real call changes only the tag entries of the mappings whose
\* repository is the image name and the string entries that started with
\* the image name and ':'; every other scalar entry keeps its value, every
\* sequence stays a sequence of the same length, and every mapping stays a
\* mapping with the same keys, but for a tag key added to a matching block.
C22_Frame ==
    RealCall
    => \A p \in NodePaths(last.pre, <<>>) :
          LET old == Get(last.pre, p)
          IN  /\ HasPath(values, p)
              /\ old.t = "map"
                   => /\ Get(values, p).t = "map"
                      /\ \/ DOMAIN Get(values, p).v = DOMAIN old.v
                         \/ /\ p \in BlockSites(last.pre, last.imageName)
                            /\ DOMAIN Get(values, p).v = DOMAIN old.v \cup {"tag"}
              /\ old.t = "seq"
                   => Get(values, p).t = "seq" /\ Len(Get(values, p).v) = Len(old.v)
              /\ (old.t \in {"str", "num"} /\ p \notin MayWrite(last.pre, last.imageName))
                   => Get(values, p) = old


\* C23: after a real call with a valid version, every match that
\* findImageBlocksUniversal reports on the resulting tree is at that
\* version: a block has tag equal to it, an inline entry is the image name,
\* ':' and the version.
C23_Converged ==
    (RealCall /\ isValidSemver(last.newVersion))
    => \A matches \in findImageBlocksUniversal(values, last.imageName) :
          \A i \in 1..Len(matches) :
             SiteAt(values, matches[i], last.imageName, last.newVersion)


\* every mapping and sequence of tree old is a mapping or a sequence at the
\* same place of tree new
TypesKept(old, new) ==
    \A p \in NodePaths(old, <<>>) :
        Get(old, p).t \in {"map", "seq"}
        => HasPath(new, p) /\ Get(new, p).t = Get(old, p).t

\* every scalar of new that old does not have is a string in the place of a
\* string or a string under a key tag that old did not have
ScalarsForScalars(old, new) ==
    \A p \in NodePaths(new, <<>>) :
        Get(new, p).t \in {"str", "num"}
        => IF HasPath(old, p)
           THEN Get(new, p) = Get(old, p) \/ (Get(old, p).t = "str" /\ Get(new, p).t = "str")
           ELSE /\ Get(new, p).t = "str"
                /\ p # <<>> /\ p[Len(p)] = AtKey("tag")
                /\ HasPath(old, SubSeq(p, 1, Len(p) - 1))

\* C24: after one real call, and after two real calls in a row, every
\* mapping and sequence of the tree before the calls is still a mapping or a
\* sequence at its place, and a call puts a string only where a string was
\* or where a tag was missing.
C24_TypesKept ==
    /\ RealCall
       => TypesKept(last.pre, values) /\ ScalarsForScalars(last.pre, values)
    /\ (RealCall /\ prev.op = "bump" /\ ~prev.dryRun)
       => TypesKept(prev.pre, values)


\* the lines of a template that trim to "spec:" and come after a line whose
\* trimmed text starts with "template:"
SpecAfterTemplate(lines) ==
    {j \in 1..Len(lines) :
        /\ TrimSpace(lines[j]) = SpecKey
        /\ \E i \in 1..(j - 1) : HasPrefix(TrimSpace(lines[i]), TemplateKey)}

\* the last run got as far as writing deployment.yaml
WroteTemplate == inj.n >= 1 /\ inj.pre.loads /\ inj.pre.deployment /\ inj.pre.tmplWritable

\* C25: a run that writes deployment.yaml writes the block once, right after
\* the first "spec:" line that follows a "template:" line, and not at all
\* when there is no such line; a "spec:" line before every "template:" line
\* gets no block; the lines of the template are all kept, in their order
\* (an empty last line is added).  A run that does not get to the write
\* leaves the template as it was.
C25_Placement ==
    inj.n >= 1
    => LET lines == inj.pre.tmpl
           at == SpecAfterTemplate(lines)
       IN  IF ~WroteTemplate THEN chart.tmpl = lines
           ELSE IF at = {} THEN chart.tmpl = Append(lines, <<>>)
           ELSE LET j == CHOOSE x \in at : \A y \in at : x <= y
                IN  chart.tmpl = SubSeq(lines, 1, j) \o BlockLines
                                   \o SubSeq(lines, j + 1, Len(lines)) \o << <<>> >>

\* a run on a template with a "spec:" line before the "template:" line and
\* another after it: the block follows the second
C25_Witness ==
    /\ inj.n = 1 /\ WroteTemplate
    /\ Len(inj.pre.tmpl) = 3
    /\ TrimSpace(inj.pre.tmpl[1]) = SpecKey
    /\ SpecAfterTemplate(inj.pre.tmpl) = {3}
    /\ BlockCount(chart.tmpl) = 1
    /\ SubSeq(chart.tmpl, 4, 7) = BlockLines

====
